---- MODULE Spec2Model ----
(***************************************************************************)
(* Gesture volume control of the JJ voice assistant                        *)
(* (src/commands/volume_commands.py): the VolumeCommands start/stop        *)
(* wrapper, the VolumeController worker loop and the system volume it      *)
(* writes.  Volumes are fixed-point numbers in units of 1/Scale.           *)
(***************************************************************************)
EXTENDS Integers, FiniteSets, Sequences, TLC

\* ---------------------------------------------------------------- bounds
\* VolumeController objects (and worker threads) created in one behaviour.
MaxWorkers == 2
\* Frames the camera delivers in one behaviour.
MaxFrames == 3
\* Widest thumb-to-index offset, in pixels, the hand-frame check feeds.
MaxPixel == 220
\* Hand frames fed to one controller in the hand-frame check.
MaxHold == 80

\* ------------------------------------------------------- program constants
\* Fixed-point resolution of a volume fraction: 1.0 is Scale units.
Scale == 10 * 1000
\* min_dist, max_dist of the distance-to-volume map (pixels).
min_dist == 20
max_dist == 180
\* smoothing_factor = 0.1 = AlphaNum / AlphaDen.
AlphaNum == 1
AlphaDen == 10
\* nircmd's full-scale volume argument.
NircmdFull == 65535

Workers == 1..MaxWorkers
None == 0

\* Config.get_input_mode(): decides whether a report is spoken or printed.
InputModes == {"voice_continuous", "text"}

\* System volume levels the machine may have before the assistant starts.
InitVols == {0, Scale \div 2, Scale}

\* Thumb-tip / index-tip offsets (|x4 - x8|, |y4 - y8|) the detector reports:
\* distances 0, 20, 100, 180 and 200 pixels.
Pinches == {<<0, 0>>, <<12, 16>>, <<60, 80>>, <<108, 144>>, <<120, 160>>}

VARIABLES
  USE_PYCAW,      \* module flag: the pycaw imports succeeded
  controller,     \* VolumeCommands.controller (None or a controller)
  control_thread, \* VolumeCommands.control_thread (None or a thread)
  nCtrl,          \* VolumeController objects constructed so far
  smooth_vol,     \* VolumeController.smooth_vol
  is_running,     \* VolumeController.is_running
  initialized,    \* VolumeController.initialized
  use_pycaw,      \* VolumeController.use_pycaw
  pc,             \* position of each worker thread in run()
  cap,            \* the worker's camera handle: "none", "opened", "released"
  win,            \* the preview window the worker created is open
  results,        \* what hands.process returned, until line 218 has used it
  vol_percent,    \* the volume percentage line 215 draws on the frame
  nFrames,        \* frames the camera has delivered
  sysVol,         \* the system master volume
  lastWrite,      \* the call the frame in progress made to set the system volume
  caller,         \* the command thread: "idle" or "joining" (inside join)
  lastCall,       \* the last command issued: "none", "start", "stop"
  lastReport,     \* what the last command reported to the user
  stopReq,        \* VolumeController.stop() has been called on the controller
  outcome,        \* why the worker left run(): "" while it has not
  \* One controller fed hand frames only (lines 229-251 in isolation):
  pinch,          \* the thumb/index offsets of the latest hand frame
  dist,           \* dist of the latest hand frame (line 243)
  vol,            \* vol of the latest hand frame (lines 248-249)
  smoothed,       \* that controller's smooth_vol
  held,           \* consecutive hand frames that had the latest pinch
  dists,          \* the distances of the hand frames so far, in order
  levels          \* smooth_vol at construction and after each hand frame

calcVars == <<pinch, dist, vol, smoothed, held, dists, levels>>

mainVars == <<USE_PYCAW, controller, control_thread, nCtrl, smooth_vol, is_running,
              initialized, use_pycaw, pc, cap, win, results, vol_percent, nFrames,
              sysVol, lastWrite, caller, lastCall, lastReport, stopReq, outcome>>

vars == <<mainVars, calcVars>>

ctrlVars == <<smooth_vol, initialized, use_pycaw>>
frameVars == <<results, vol_percent, nFrames>>
cmdVars == <<controller, control_thread, nCtrl, caller, lastCall, lastReport>>
soundVars == <<sysVol, lastWrite>>

\* ------------------------------------------------------------ arithmetic
\* a / b rounded to the nearest unit (b > 0).
RoundDiv(a, b) == (2 * a + b) \div (2 * b)

\* int(x) of a non-negative quotient a / b.
IntDiv(a, b) == a \div b

\* m.sqrt of a sum of squares, in whole pixels.
ISqrt(n) == CHOOSE r \in 0..(2 * max_dist) : r * r <= n /\ (r + 1) * (r + 1) > n

\* line 243: dist = sqrt((x4 - x8)**2 + (y4 - y8)**2)
Dist(p) == ISqrt(p[1] * p[1] + p[2] * p[2])

Max(a, b) == IF a >= b THEN a ELSE b
Min(a, b) == IF a <= b THEN a ELSE b

\* Faulty variant: the offset min_dist is forgotten.
RawVol_NoOffset(d) == RoundDiv(d * Scale, max_dist)

\* line 248: vol = (dist - min_dist) / (max_dist - min_dist)
RawVol(d) == RoundDiv((d - min_dist) * Scale, max_dist - min_dist)

\* Faulty variant: the raw fraction is not clamped.
Clamp_None(v) == v

\* line 249: vol = max(0.0, min(1.0, vol))
Clamp(v) == Max(0, Min(Scale, v))

\* Faulty variant: a frame applies the smoothing step twice.
Smooth_Twice(s, v) ==
  LET once == s + RoundDiv((v - s) * AlphaNum, AlphaDen)
  IN once + RoundDiv((v - once) * AlphaNum, AlphaDen)

\* Faulty variant: the difference is taken the wrong way round.
Smooth_SignError(s, v) == s + RoundDiv((s - v) * AlphaNum, AlphaDen)

\* Faulty variant: smooth_vol is not subtracted from vol.
Smooth_NoDiff(s, v) == s + RoundDiv(v * AlphaNum, AlphaDen)

\* line 251: smooth_vol + (vol - smooth_vol) * smoothing_factor
Smooth(s, v) == s + RoundDiv((v - s) * AlphaNum, AlphaDen)

\* lines 243-251 for one hand frame.
HandUpdate(s, p) == Smooth(s, Clamp(RawVol(Dist(p))))

\* line 213: vol_percent = int(current_vol * 100)
Percent(v) == IntDiv(v * 100, Scale)

\* line 294: int(volume_level * 65535)
NircmdArg(v) == IntDiv(v * NircmdFull, Scale)

\* the master volume nircmd's argument stands for
NircmdLevel(a) == RoundDiv(a * Scale, NircmdFull)

\* ---------------------------------------------------------------- state
NoResult == [kind |-> "none", pinch |-> <<0, 0>>]
NoHand == [kind |-> "nohand", pinch |-> <<0, 0>>]
Raised == [kind |-> "raised", pinch |-> <<0, 0>>]
Hand(p) == [kind |-> "hand", pinch |-> p]

NoWrite == [api |-> "none", value |-> 0, ok |-> FALSE]
NoReport == "none"

\* Thread.is_alive(): started and run() has not returned or raised.
IsAlive(t) == pc[t] \notin {"nothread", "done", "collected"}

\* No hand frame has been fed in isolation.
CalcIdle ==
  /\ pinch = <<0, 0>>
  /\ dist = 0
  /\ vol = 0
  /\ smoothed = 0
  /\ held = 0
  /\ dists = <<>>
  /\ levels = <<>>

\* The assistant before any command.
MainInit ==
  /\ USE_PYCAW \in BOOLEAN
  /\ controller = None
  /\ control_thread = None
  /\ nCtrl = 0
  /\ smooth_vol = [t \in Workers |-> 0]
  /\ is_running = [t \in Workers |-> FALSE]
  /\ initialized = [t \in Workers |-> FALSE]
  /\ use_pycaw = [t \in Workers |-> FALSE]
  /\ pc = [t \in Workers |-> "nothread"]
  /\ cap = [t \in Workers |-> "none"]
  /\ win = [t \in Workers |-> FALSE]
  /\ results = [t \in Workers |-> NoResult]
  /\ vol_percent = [t \in Workers |-> 0]
  /\ nFrames = 0
  /\ sysVol \in InitVols
  /\ lastWrite = NoWrite
  /\ caller = "idle"
  /\ lastCall = "none"
  /\ lastReport = NoReport
  /\ stopReq = [t \in Workers |-> FALSE]
  /\ outcome = [t \in Workers |-> ""]

Init == MainInit /\ CalcIdle

\* ------------------------------------------------------- VolumeCommands
\* speak(...) in voice mode, print(...) otherwise: the same message either way.
Report(mode, msg) == msg

\* VolumeController.__init__: the fields a new controller may end up with.
\* pycaw either answers (smooth_vol is the master volume) or fails on one of
\* the except paths (smooth_vol keeps its default 0.5, visual-only mode).
NewController ==
  LET visual == [smooth_vol |-> Scale \div 2, use_pycaw |-> FALSE,
                 initialized |-> TRUE]
      native == [smooth_vol |-> sysVol, use_pycaw |-> TRUE,
                 initialized |-> TRUE]
  IN IF USE_PYCAW THEN {native, visual} ELSE {visual}

\* Faulty variant: start_volume_control without the liveness guard.
CanStart_NoCheck == TRUE

\* Faulty variant: the guard reads the controller's running flag, not the thread.
CanStart_ByFlag == controller = None \/ ~is_running[controller]

\* line 39: control_thread is None or not control_thread.is_alive()
CanStart == control_thread = None \/ ~IsAlive(control_thread)

\* Faulty variant: the guard forgets is_alive().
StopFindsWorker_NoAliveCheck == control_thread # None

\* line 72: control_thread and control_thread.is_alive()
StopFindsWorker == control_thread # None /\ IsAlive(control_thread)

\* The controller and thread objects that lose their last reference when
\* start_volume_control rebinds self.controller and self.control_thread.
Unreferenced == {t \in Workers : t \in {controller, control_thread} /\ pc[t] = "done"}

\* f with the fields of the unreferenced objects dropped.
Drop(f, blank) == [t \in Workers |-> IF t \in Unreferenced THEN blank ELSE f[t]]

\* lines 35-66
start_volume_control ==
  \E mode \in InputModes :
    /\ caller = "idle"
    /\ lastCall' = "start"
    /\ IF CanStart
       THEN /\ nCtrl < MaxWorkers
            /\ \E c \in NewController :
                 LET n == nCtrl + 1 IN
                 /\ nCtrl' = n
                 /\ controller' = n
                 /\ smooth_vol' = [Drop(smooth_vol, 0) EXCEPT ![n] = c.smooth_vol]
                 /\ use_pycaw' = [Drop(use_pycaw, FALSE) EXCEPT ![n] = c.use_pycaw]
                 /\ initialized' = [Drop(initialized, FALSE) EXCEPT ![n] = c.initialized]
                 /\ is_running' = Drop(is_running, FALSE)
                 /\ stopReq' = Drop(stopReq, FALSE)
                 /\ outcome' = Drop(outcome, "")
                 /\ cap' = Drop(cap, "none")
                 /\ IF c.initialized
                    THEN /\ control_thread' = n
                         /\ pc' = [Drop(pc, "collected") EXCEPT ![n] = "entry"]
                         /\ lastReport' = Report(mode, "starting")
                    ELSE /\ control_thread' = control_thread
                         /\ pc' = Drop(pc, "collected")
                         /\ lastReport' = Report(mode, "failed")
            /\ UNCHANGED <<calcVars, USE_PYCAW, win, frameVars, sysVol, lastWrite, caller>>
       ELSE /\ lastReport' = Report(mode, "already_running")
            /\ UNCHANGED <<calcVars, USE_PYCAW, controller, control_thread, nCtrl, smooth_vol,
                           is_running, initialized, use_pycaw, pc, cap, win,
                           frameVars, sysVol, lastWrite, caller, stopReq, outcome>>

\* lines 281-283: VolumeController.stop() on controller c
stop(c) ==
  /\ is_running' = [is_running EXCEPT ![c] = FALSE]
  /\ stopReq' = [stopReq EXCEPT ![c] = TRUE]

\* lines 68-86, up to the call of join
stop_volume_control ==
  \E mode \in InputModes :
    /\ caller = "idle"
    /\ lastCall' = "stop"
    /\ IF StopFindsWorker
       THEN /\ IF controller # None
               THEN stop(controller)
               ELSE UNCHANGED <<is_running, stopReq>>
            /\ lastReport' = Report(mode, "stopping")
            /\ caller' = "joining"
       ELSE /\ lastReport' = Report(mode, "not_running")
            /\ UNCHANGED <<is_running, stopReq, caller>>
    /\ UNCHANGED <<calcVars, USE_PYCAW, controller, control_thread, nCtrl, ctrlVars, pc, cap,
                   win, frameVars, sysVol, lastWrite, outcome>>

\* line 80: control_thread.join(timeout=2) returns, because the thread has
\* ended or because the two seconds have passed with the worker still alive.
join_returns ==
  /\ caller = "joining"
  /\ caller' = "idle"
  /\ UNCHANGED <<calcVars, USE_PYCAW, controller, control_thread, nCtrl, ctrlVars, is_running,
                 pc, cap, win, frameVars, sysVol, lastWrite, lastCall, lastReport,
                 stopReq, outcome>>

\* ---------------------------------------------- VolumeController.run
\* lines 146-157: the initialized check, COM set-up, is_running = True
run_entry(t) ==
  /\ pc[t] = "entry"
  /\ IF initialized[t]
     THEN /\ is_running' = [is_running EXCEPT ![t] = TRUE]
          /\ pc' = [pc EXCEPT ![t] = "open"]
          /\ UNCHANGED outcome
     ELSE /\ pc' = [pc EXCEPT ![t] = "done"]
          /\ outcome' = [outcome EXCEPT ![t] = "not_initialized"]
          /\ UNCHANGED is_running
  /\ UNCHANGED <<calcVars, USE_PYCAW, cmdVars, ctrlVars, cap, win, frameVars, soundVars, stopReq>>

\* Faulty variant: the return after "Cannot access webcam" is missing.
open_camera_no_return(t) ==
  /\ pc[t] = "open"
  /\ \E opened \in BOOLEAN :
       /\ cap' = [cap EXCEPT ![t] = IF opened THEN "opened" ELSE "none"]
       /\ win' = [win EXCEPT ![t] = TRUE]
       /\ pc' = [pc EXCEPT ![t] = "loop"]
       /\ outcome' = [outcome EXCEPT ![t] = IF opened THEN "" ELSE "camera_open_failed"]
  /\ UNCHANGED <<calcVars, USE_PYCAW, cmdVars, ctrlVars, is_running, frameVars, soundVars, stopReq>>

\* lines 158-179: open the camera; on failure print and return, otherwise
\* build the detector and the preview window
open_camera(t) ==
  /\ pc[t] = "open"
  /\ \E opened \in BOOLEAN :
       IF opened
       THEN /\ cap' = [cap EXCEPT ![t] = "opened"]
            /\ win' = [win EXCEPT ![t] = TRUE]
            /\ pc' = [pc EXCEPT ![t] = "loop"]
            /\ UNCHANGED outcome
       ELSE /\ pc' = [pc EXCEPT ![t] = "done"]
            /\ outcome' = [outcome EXCEPT ![t] = "camera_open_failed"]
            /\ UNCHANGED <<cap, win>>
  /\ UNCHANGED <<calcVars, USE_PYCAW, cmdVars, ctrlVars, is_running, frameVars, soundVars, stopReq>>

\* line 181: while self.is_running
loop_test(t) ==
  /\ pc[t] = "loop"
  /\ IF is_running[t]
     THEN /\ pc' = [pc EXCEPT ![t] = "read"]
          /\ UNCHANGED outcome
     ELSE /\ pc' = [pc EXCEPT ![t] = "cleanup"]
          /\ outcome' = [outcome EXCEPT ![t] = "flag_cleared"]
  /\ UNCHANGED <<calcVars, USE_PYCAW, cmdVars, ctrlVars, is_running, cap, win, frameVars,
                 soundVars, stopReq>>

\* lines 182-184: suc, frame = cap.read(); break when it fails
read_frame(t) ==
  /\ pc[t] = "read"
  /\ \E suc \in BOOLEAN :
       IF suc
       THEN /\ nFrames < MaxFrames
            /\ nFrames' = nFrames + 1
            /\ pc' = [pc EXCEPT ![t] = "process"]
            /\ UNCHANGED outcome
       ELSE /\ pc' = [pc EXCEPT ![t] = "cleanup"]
            /\ outcome' = [outcome EXCEPT ![t] = "read_failed"]
            /\ UNCHANGED nFrames
  /\ UNCHANGED <<calcVars, USE_PYCAW, cmdVars, ctrlVars, is_running, cap, win, results,
                 vol_percent, soundVars, stopReq>>

\* lines 205-211: the volume to display; a failed read of the endpoint falls
\* back to smooth_vol
CurrentVol(t, readOk) == IF use_pycaw[t] /\ readOk THEN sysVol ELSE smooth_vol[t]

\* lines 186-216: prepare the frame, run the detector, read the volume to
\* display.  Nothing in run() catches what hands.process or cv2 raise: the
\* exception leaves run() and ends the thread.
process_frame(t) ==
  /\ pc[t] = "process"
  /\ \E r \in {NoHand, Raised} \cup {Hand(p) : p \in Pinches} :
       IF r = Raised
       THEN /\ pc' = [pc EXCEPT ![t] = "done"]
            /\ outcome' = [outcome EXCEPT ![t] = "exception"]
            /\ UNCHANGED <<results, vol_percent>>
       ELSE /\ results' = [results EXCEPT ![t] = r]
            /\ \E readOk \in BOOLEAN :
                 vol_percent' = [vol_percent EXCEPT ![t] = Percent(CurrentVol(t, readOk))]
            /\ pc' = [pc EXCEPT ![t] = "branch"]
            /\ UNCHANGED outcome
  /\ UNCHANGED <<calcVars, USE_PYCAW, cmdVars, ctrlVars, is_running, cap, win, nFrames,
                 soundVars, stopReq>>

\* lines 218-251: a hand was detected; map the pinch distance to a volume
\* and smooth it
hand_frame(t) ==
  /\ pc[t] = "branch"
  /\ results[t].kind = "hand"
  /\ smooth_vol' = [smooth_vol EXCEPT ![t] = HandUpdate(smooth_vol[t], results[t].pinch)]
  /\ results' = [results EXCEPT ![t] = NoResult]
  /\ vol_percent' = [vol_percent EXCEPT ![t] = 0]
  /\ pc' = [pc EXCEPT ![t] = "setvol"]
  /\ UNCHANGED <<calcVars, USE_PYCAW, cmdVars, initialized, use_pycaw, is_running, cap, win,
                 nFrames, soundVars, stopReq, outcome>>

\* Faulty variant: without a hand the level decays towards zero and is applied.
no_hand_frame_decay(t) ==
  /\ pc[t] = "branch"
  /\ results[t].kind = "nohand"
  /\ smooth_vol' = [smooth_vol EXCEPT ![t] = Smooth(smooth_vol[t], 0)]
  /\ results' = [results EXCEPT ![t] = NoResult]
  /\ vol_percent' = [vol_percent EXCEPT ![t] = 0]
  /\ pc' = [pc EXCEPT ![t] = "setvol"]
  /\ UNCHANGED <<calcVars, USE_PYCAW, cmdVars, initialized, use_pycaw, is_running, cap, win,
                 nFrames, soundVars, stopReq, outcome>>

\* lines 262-264: no hand; only the "Show your hand!" text is drawn
no_hand_frame(t) ==
  /\ pc[t] = "branch"
  /\ results[t].kind = "nohand"
  /\ results' = [results EXCEPT ![t] = NoResult]
  /\ vol_percent' = [vol_percent EXCEPT ![t] = 0]
  /\ pc' = [pc EXCEPT ![t] = "show"]
  /\ UNCHANGED <<calcVars, USE_PYCAW, cmdVars, ctrlVars, is_running, cap, win, nFrames,
                 soundVars, stopReq, outcome>>

\* lines 285-302: _set_system_volume; the nircmd call is made on Windows and
\* every failure of it is swallowed
set_system_volume(level) ==
  \E made \in BOOLEAN :
    /\ lastWrite' = [api |-> "nircmd", value |-> NircmdArg(level), ok |-> made]
    /\ sysVol' = IF made THEN NircmdLevel(NircmdArg(level)) ELSE sysVol

\* lines 254-258: SetMasterVolumeLevelScalar; an exception is printed
set_master_volume(level) ==
  \E ok \in BOOLEAN :
    /\ lastWrite' = [api |-> "pycaw", value |-> level, ok |-> ok]
    /\ sysVol' = IF ok THEN level ELSE sysVol

\* lines 253-261: apply smooth_vol with the available method
set_volume(t) ==
  /\ pc[t] = "setvol"
  /\ IF use_pycaw[t]
     THEN set_master_volume(smooth_vol[t])
     ELSE set_system_volume(smooth_vol[t])
  /\ pc' = [pc EXCEPT ![t] = "show"]
  /\ UNCHANGED <<calcVars, USE_PYCAW, cmdVars, ctrlVars, is_running, cap, win, frameVars,
                 stopReq, outcome>>

\* lines 266-274: draw the instruction bar, show the frame, poll the key
show_frame(t) ==
  /\ pc[t] = "show"
  /\ \E quit \in BOOLEAN :
       IF quit
       THEN /\ pc' = [pc EXCEPT ![t] = "cleanup"]
            /\ outcome' = [outcome EXCEPT ![t] = "quit_key"]
       ELSE /\ pc' = [pc EXCEPT ![t] = "loop"]
            /\ UNCHANGED outcome
  /\ lastWrite' = NoWrite
  /\ UNCHANGED <<calcVars, USE_PYCAW, cmdVars, ctrlVars, is_running, cap, win, frameVars,
                 sysVol, stopReq>>

\* lines 276-279: cap.release(), cv2.destroyAllWindows(), hands.close(),
\* is_running = False
cleanup(t) ==
  /\ pc[t] = "cleanup"
  /\ cap' = [cap EXCEPT ![t] = "released"]
  /\ win' = [u \in Workers |-> FALSE]
  /\ is_running' = [is_running EXCEPT ![t] = FALSE]
  /\ pc' = [pc EXCEPT ![t] = "done"]
  /\ UNCHANGED <<calcVars, USE_PYCAW, cmdVars, ctrlVars, frameVars, soundVars, stopReq, outcome>>

\* lines 144-279
run(t) ==
  \/ run_entry(t)
  \/ open_camera(t)
  \/ loop_test(t)
  \/ read_frame(t)
  \/ process_frame(t)
  \/ hand_frame(t)
  \/ no_hand_frame(t)
  \/ set_volume(t)
  \/ show_frame(t)
  \/ cleanup(t)

Next ==
  \/ start_volume_control
  \/ stop_volume_control
  \/ join_returns
  \/ \E t \in Workers : run(t)

Spec == Init /\ [][Next]_vars

\* ------------------------------------- hand frames fed to one controller
\* Offsets along one axis: every whole distance from 0 to MaxPixel.
WidePinches == {<<x, 0>> : x \in 0..MaxPixel}

\* A controller as __init__ leaves it when pycaw answers, before its first
\* frame: smooth_vol is the master volume (0.5 is also the default).
HandInit ==
  /\ MainInit
  /\ USE_PYCAW
  /\ pinch = <<0, 0>>
  /\ dist = 0
  /\ vol = 0
  /\ smoothed \in {c.smooth_vol : c \in {n \in NewController : n.use_pycaw}}
  /\ held = 0
  /\ dists = <<>>
  /\ levels = <<smoothed>>

\* lines 229-251: one frame in which the detector reports offsets p
feed(p) ==
  /\ Len(dists) < MaxHold
  /\ pinch' = p
  /\ dist' = Dist(p)
  /\ vol' = Clamp(RawVol(dist'))
  /\ smoothed' = HandUpdate(smoothed, p)
  /\ held' = IF dists # <<>> /\ p = pinch THEN held + 1 ELSE 1
  /\ dists' = Append(dists, dist')
  /\ levels' = Append(levels, smoothed')
  /\ UNCHANGED mainVars

\* The first hand frame: any distance up to MaxPixel.
first_hand_frame ==
  /\ dists = <<>>
  /\ \E p \in WidePinches \cup Pinches : feed(p)

\* The hand moves to another of the pinches, within the first MaxFrames frames.
move_hand ==
  /\ dists # <<>>
  /\ pinch \in Pinches
  /\ Len(dists) < MaxFrames
  /\ \E p \in Pinches \ {pinch} : feed(p)

\* The hand keeps its pinch for another frame.
hold_hand ==
  /\ dists # <<>>
  /\ feed(pinch)

HandNext ==
  \/ first_hand_frame
  \/ move_hand
  \/ hold_hand

HandSpec == HandInit /\ [][HandNext]_vars

\* ------------------------------------------------------------ properties
\* The worker threads that are alive.
AliveSet == {t \in Workers : IsAlive(t)}

\* C1 (as stated): a start_volume_control() that follows another one with no
\* stop_volume_control() in between is rejected as "already running", creates
\* no controller and no thread, and leaves exactly one worker alive, whatever
\* the first worker has done in the meantime.
C1_SecondStartAlwaysRejected ==
  [][(lastCall = "start" /\ start_volume_control)
       => /\ lastReport' = "already_running"
          /\ nCtrl' = nCtrl
          /\ pc' = pc
          /\ Cardinality(AliveSet') = 1]_vars

\* C1 (amended): a start that follows a start with no stop in between leaves
\* exactly one worker alive.  While the first worker is still alive it is
\* rejected as "already running" and creates no controller and no thread;
\* once that worker has ended on its own it starts a new controller and a
\* new thread.
C1_SecondStart ==
  [][(lastCall = "start" /\ start_volume_control)
       => /\ Cardinality(AliveSet') = 1
          /\ IF AliveSet # {}
             THEN /\ lastReport' = "already_running"
                  /\ nCtrl' = nCtrl
                  /\ controller' = controller
                  /\ control_thread' = control_thread
                  /\ pc' = pc
             ELSE /\ lastReport' = "starting"
                  /\ nCtrl' = nCtrl + 1
                  /\ control_thread' = nCtrl'
                  /\ pc'[nCtrl'] = "entry"]_vars

\* The first worker is alive, no stop was ever requested of it, and a
\* second start has just been rejected.
C1_Witness ==
  /\ nCtrl = 1
  /\ IsAlive(1)
  /\ ~stopReq[1]
  /\ lastCall = "start"
  /\ lastReport = "already_running"

\* C2: in every reachable state at most one worker thread is inside
\* VolumeController.run, so at most one is at the write of the system volume.
C2_AtMostOneWorker ==
  /\ Cardinality(AliveSet) <= 1
  /\ Cardinality({t \in Workers : pc[t] = "setvol"}) <= 1

\* A stop has returned from its join with the worker still alive, and a
\* later start has been rejected.
C2_Witness ==
  /\ control_thread # None
  /\ IsAlive(control_thread)
  /\ stopReq[control_thread]
  /\ caller = "idle"
  /\ lastReport = "already_running"

\* C3: once stop() has been called on a worker's controller, the loop test of
\* line 181 never admits another frame iteration, at whatever point of run()
\* the stop arrived.
C3_StopNeverLost ==
  [][\A t \in Workers : (stopReq[t] /\ pc[t] = "loop") => pc'[t] # "read"]_vars

\* C4: stop_volume_control() with no worker alive reports "not running",
\* calls neither stop() nor join, and leaves the controller, the thread
\* reference, the running flags and the smoothed volumes unchanged.
C4_StopWhenIdleIsNoOp ==
  [][(AliveSet = {} /\ stop_volume_control)
       => /\ lastReport' = "not_running"
          /\ caller' = "idle"
          /\ UNCHANGED <<controller, control_thread, nCtrl, pc, is_running,
                         smooth_vol, stopReq>>]_vars

\* The worker has ended and a later stop has reported "not running".
C4_Witness ==
  /\ control_thread # None
  /\ pc[control_thread] = "done"
  /\ lastCall = "stop"
  /\ lastReport = "not_running"

\* C5 (as stated): when the camera cannot be opened no worker thread exists
\* for that run attempt and the start request has reported the failure.
C5_StartReportsCameraFailure ==
  \A t \in Workers :
    outcome[t] = "camera_open_failed"
      => /\ pc[t] = "nothread"
         /\ (lastCall = "start" /\ controller = t => lastReport = "failed")

\* C5 (amended): when the camera cannot be opened, the start request has
\* already created the worker thread and has not reported a failure; the
\* worker finds the failure itself and ends at once, holding no camera
\* handle and no preview window, so no worker stays active for that run
\* attempt.
C5_CameraFailureEndsWorker ==
  \A t \in Workers :
    outcome[t] = "camera_open_failed"
      => /\ pc[t] = "done"
         /\ cap[t] = "none"
         /\ ~win[t]
         /\ lastReport # "failed"

\* The worker of the latest start has failed to open the camera.
C5_Witness ==
  /\ controller # None
  /\ outcome[controller] = "camera_open_failed"
  /\ lastCall = "start"

\* C6: a worker that has terminated holds no camera handle and has left no
\* preview window open.
C6_ResourcesReleased ==
  \A t \in Workers : pc[t] = "done" => (cap[t] # "opened" /\ ~win[t])

\* C7: every smoothed volume, every value passed to a set-volume call and
\* the system volume itself lie in [0.0, 1.0].
C7_VolumeInRange ==
  /\ \A t \in Workers : smooth_vol[t] \in 0..Scale
  /\ lastWrite.api = "pycaw" => lastWrite.value \in 0..Scale
  /\ lastWrite.api = "nircmd" => lastWrite.value \in 0..NircmdFull
  /\ sysVol \in 0..Scale

\* Hand frames have driven the level to an end of the range and it has been
\* written to the endpoint.
C7_Witness ==
  /\ nFrames >= 2
  /\ lastWrite.api = "pycaw"
  /\ lastWrite.ok
  /\ lastWrite.value \in {0, Scale}

\* C8: a frame in which no hand was detected goes from line 218 straight to
\* the display: the smoothed volume keeps its value and nothing is written
\* to the system volume.
C8_NoHandNoChange ==
  [][\A t \in Workers :
       (pc[t] = "branch" /\ results[t].kind = "nohand" /\ pc'[t] # "branch")
         => /\ pc'[t] = "show"
            /\ smooth_vol'[t] = smooth_vol[t]
            /\ sysVol' = sysVol
            /\ lastWrite' = lastWrite]_vars

\* A frame without a hand has reached the display, nothing written.
C8_Witness ==
  \E t \in Workers : pc[t] = "show" /\ lastWrite = NoWrite /\ nFrames >= 1

\* C9: no step of a frame iteration ends the worker: after the detector step
\* the worker is still alive, and the set-volume step, failed or not, goes on
\* to the display with the smoothed volume retained.
C9_FrameErrorsNonFatal ==
  [][\A t \in Workers :
       /\ (pc[t] = "process" /\ pc'[t] # "process") => pc'[t] = "branch"
       /\ (pc[t] = "setvol" /\ pc'[t] # "setvol")
            => (pc'[t] = "show" /\ smooth_vol'[t] = smooth_vol[t])]_vars

\* C10: a worker that has finished has left its controller's running flag
\* false, and the flag is true only inside run().
C10_FinishedMeansStopped ==
  \A t \in Workers : is_running[t] => IsAlive(t)

\* ------------------------------------------- properties of a hand frame
Abs(x) == IF x >= 0 THEN x ELSE -x

\* The smoothing step no longer moves a level this close to its target.
Tol == AlphaDen \div (2 * AlphaNum)

\* Frames of a held pinch after which the level has settled.
ConvergeBy == MaxHold - 5

\* C11: with min_dist = 20 and max_dist = 180, the raw fraction of a hand
\* frame at distance d lies in [0.0, 1.0], is 0.0 for d <= min_dist, 1.0 for
\* d >= max_dist, and between them is (d - min_dist) / (max_dist - min_dist)
\* to within half a unit of the representation.
C11_RawFraction ==
  dists # <<>>
    => /\ min_dist = 20 /\ max_dist = 180
       /\ vol \in 0..Scale
       /\ dist <= min_dist => vol = 0
       /\ dist >= max_dist => vol = Scale
       /\ (min_dist < dist /\ dist < max_dist)
            => 2 * Abs(vol * (max_dist - min_dist) - (dist - min_dist) * Scale)
                 <= max_dist - min_dist

\* A frame at 60 pixels has given the raw fraction 0.25.
C11_Witness == dists # <<>> /\ dist = 60 /\ 4 * vol = Scale

\* C12: every hand frame updates the smoothed level exactly once, to
\* smoothed + (raw - smoothed) * 0.1 (to within half a unit), and from 0.5 the
\* distances 100, 180, 20 give the levels 0.5, 0.55, 0.495.
C12_SmoothingStep ==
  /\ [][dists' # dists
          => /\ AlphaNum = 1 /\ AlphaDen = 10
             /\ Len(dists') = Len(dists) + 1
             /\ levels' = Append(levels, smoothed')
             /\ 2 * Abs(AlphaDen * (smoothed' - smoothed) - AlphaNum * (vol' - smoothed))
                  <= AlphaDen]_vars
  /\ [](\A k \in 1..3 :
          (/\ Len(dists) >= k
           /\ levels[1] = Scale \div 2
           /\ SubSeq(dists, 1, k) = SubSeq(<<100, 180, 20>>, 1, k))
            => levels[k + 1] = (<<500, 550, 495>>[k] * Scale) \div 1000)

\* The three frames of the scenario have been fed to a controller at 0.5.
C12_Witness ==
  /\ dists = <<100, 180, 20>>
  /\ levels[1] = Scale \div 2
  /\ 1000 * smoothed = 495 * Scale

\* C13: under a constant raw target every frame leaves the level on the
\* same side of the target, strictly closer to it while it is further than
\* the tolerance away and within the tolerance once it is, and a pinch held
\* for ConvergeBy frames has brought the level within the tolerance.
C13_MonotoneConvergence ==
  /\ [][(dists' # dists /\ dists # <<>> /\ pinch' = pinch)
          => /\ vol' = vol
             /\ (vol - smoothed') * (vol - smoothed) >= 0
             /\ Abs(vol - smoothed) > Tol
                  => Abs(vol - smoothed') < Abs(vol - smoothed)
             /\ Abs(vol - smoothed) <= Tol
                  => Abs(vol - smoothed') <= Tol]_vars
  /\ [](held >= ConvergeBy => Abs(vol - smoothed) <= Tol)

\* A level that started the whole range away from a held target has settled.
C13_Witness ==
  /\ held >= ConvergeBy
  /\ Abs(vol - levels[1]) = Scale
  /\ Abs(vol - smoothed) <= Tol

\* C14: a hand frame whose raw fraction equals the current level leaves the
\* level unchanged.
C14_SteadyState ==
  [][(dists' # dists /\ vol' = smoothed) => smoothed' = smoothed]_vars

\* A frame at the level's own raw fraction, away from the clamped ends, has
\* been applied.
C14_Witness ==
  /\ dists # <<>>
  /\ 2 * vol = Scale
  /\ levels[Len(levels) - 1] = vol
  /\ smoothed = vol

====
